---- MODULE Spec2Model ----
(***************************************************************************)
(* wgpu-fluid: the event loop of src/main.rs (pointer handlers, the        *)
(* RedrawRequested handler that writes the parameter buffer and records    *)
(* the compute pass and the render pass) and the GPU queue that executes   *)
(* what the handler submits, one dispatch at a time.                       *)
(*                                                                         *)
(* Real numbers (f32 fields of SimParams, texel values) are fixed-point    *)
(* integers in units of 1/FP.  The compute kernels live in fluid.wgsl,     *)
(* which is not part of src/; their bodies follow spec.md sections 4.2 to  *)
(* 4.5, their order and number follow the dispatches of main.rs.           *)
(***************************************************************************)
EXTENDS Integers, Sequences, FiniteSets, TLC

VARIABLES
    sim_params,     \* main.rs:237  the CPU-side SimParams record
    last_mouse,     \* main.rs:374  Option<(f32,f32)>: <<>> is None, <<p>> is Some(p)
    window_size,    \* main.rs:375  <<width, height>>
    frame_count,    \* main.rs:376
    served,         \* observation: RedrawRequested events that reached queue.submit
    staged,         \* queue.write_buffer data not yet handed over by a submit
    gpu_queue,      \* commands submitted to the queue and not yet executed
    param_buffer,   \* contents of the uniform buffer as the GPU sees it
    tex,            \* contents of the seven storage textures
    since_release,  \* observation: pointer events since the last release
    tick,           \* observation: the tick the GPU is executing / executed last
    last_stage,     \* observation: the dispatch the GPU executed last
    committed,      \* observation: vel and dens after the last completed tick
    held            \* observation: what the user holds down (followed under
                    \* PointerSpec only)

vars == <<sim_params, last_mouse, window_size, frame_count, served, staged, gpu_queue,
          param_buffer, tex, since_release, tick, last_stage,
          committed, held>>

cpu_vars == <<sim_params, last_mouse, window_size, frame_count, served, staged>>
gpu_vars == <<param_buffer, tex, tick, last_stage, committed>>

----------------------------------------------------------------------------
(* Bounds and program constants *)

\* one unit of an f32 is FP fixed-point units
FP == 1000

\* side of the grid (256 in main.rs, shrunk)
GRID_SIZE == 4

\* RedrawRequested events in a run
MaxFrames == 2

\* ticks submitted and not yet executed by the GPU
MaxInFlight == 1

\* rounds of pressure_jacobi_a, pressure_jacobi_b in a tick (20 in main.rs,
\* shrunk)
JACOBI_ROUNDS == 2

DT == 16
VISCOSITY_E4 == 1
DISSIPATION == 998
ADD_STRENGTH == 2000
RADIUS == 35000
SEED_RADIUS == 30

Cells == (0 .. GRID_SIZE - 1) \X (0 .. GRID_SIZE - 1)

Max(a, b) == IF a >= b THEN a ELSE b
Min(a, b) == IF a <= b THEN a ELSE b
Clamp(v, lo, hi) == Max(lo, Min(v, hi))

RECURSIVE Pow2(_)
Pow2(n) == IF n <= 0 THEN 1 ELSE 2 * Pow2(n - 1)

----------------------------------------------------------------------------
(* f32 values as <<sign, biased exponent, 23-bit fraction>> and their      *)
(* conversion to the 16 bits of a texel                                    *)

\* n/d > 0 brought to 1 <= n/d < 2 with the exponent that takes it there
RECURSIVE Normalise(_, _, _)
Normalise(n, d, e) ==
    IF n < d THEN Normalise(2 * n, d, e - 1)
    ELSE IF n >= 2 * d THEN Normalise(n, 2 * d, e + 1)
    ELSE <<n, d, e>>

\* the first k bits of rem/d, 0 <= rem < d
RECURSIVE FracBits(_, _, _)
FracBits(rem, d, k) ==
    IF k = 0 THEN 0
    ELSE LET bit == IF 2 * rem >= d THEN 1 ELSE 0
         IN  bit * Pow2(k - 1) + FracBits(2 * rem - bit * d, d, k - 1)

\* the f32 nearest below n/d, n >= 0, d > 0
F32(n, d) ==
    IF n = 0 THEN [sign |-> 0, exp |-> 0, frac |-> 0]
    ELSE LET nd == Normalise(n, d, 0)
         IN  [sign |-> 0, exp |-> nd[3] + 127,
              frac |-> FracBits(nd[1] - nd[2], nd[2], 23)]

f32_to_f16(value) ==
    LET sign == value.sign * 32768
        exp  == value.exp - 127 + 15
        frac == value.frac
    IN  IF exp <= 0 THEN 0
        ELSE IF exp >= 31 THEN sign + 31744
        ELSE sign + exp * 1024 + frac \div 8192

\* what a texel holding the 16 bits h reads as, in fixed point
F16Value(h) ==
    LET e == (h \div 1024) % 32
        m == h % 1024
    IN  IF e = 0 THEN 0
        ELSE IF e >= 15 THEN ((1024 + m) * Pow2(e - 15) * FP) \div 1024
        ELSE ((1024 + m) * FP) \div (1024 * Pow2(15 - e))

\* the density blob written into dens_tex before the loop starts
SeedDensity ==
    [c \in Cells |->
        LET dx2 == 2 * c[1] - GRID_SIZE
            dy2 == 2 * c[2] - GRID_SIZE
            r2  == 4 * SEED_RADIUS * SEED_RADIUS
            s   == dx2 * dx2 + dy2 * dy2
            val == IF s >= r2 THEN F32(0, 1) ELSE F32(r2 - s, r2)
        IN  <<F16Value(f32_to_f16(val)), 0>>]

----------------------------------------------------------------------------
(* The field store: seven textures of GRID_SIZE x GRID_SIZE texels, each    *)
(* texel a pair <<x, y>> (the two channels the kernels use)                 *)

Textures == {"vel", "vel_tmp", "dens", "dens_tmp", "press", "press_tmp", "div"}

ZeroField == [c \in Cells |-> <<0, 0>>]

\* create_storage_tex for each of the seven, then the seed written to dens
InitTextures == [n \in Textures |-> IF n = "dens" THEN SeedDensity ELSE ZeroField]

\* compute_bg: binding index -> the texture bound there (binding 0 is the
\* parameter buffer)
compute_bg(b) ==
    CASE b = 1 -> "vel"
      [] b = 2 -> "vel_tmp"
      [] b = 3 -> "dens"
      [] b = 4 -> "dens_tmp"
      [] b = 5 -> "press"
      [] b = 6 -> "press_tmp"
      [] b = 7 -> "div"

\* render_bg: binding 0 is the density view, binding 2 the velocity view
render_bg(b) ==
    CASE b = 0 -> "dens"
      [] b = 2 -> "vel"

Load(t, b) == t[compute_bg(b)]
Store(t, b, f) == [t EXCEPT ![compute_bg(b)] = f]

----------------------------------------------------------------------------
(* The kernels of fluid.wgsl, per cell over the whole grid                  *)

\* texel at (x, y) with the coordinates clamped to the grid
At(f, x, y) == f[<<Clamp(x, 0, GRID_SIZE - 1), Clamp(y, 0, GRID_SIZE - 1)>>]

Lerp(a, b, w) == a + ((b - a) * w) \div FP

\* bilinear sample of channel k of f at the fixed-point position (px, py)
Bilinear(f, k, px, py) ==
    LET cx == Clamp(px, 0, (GRID_SIZE - 1) * FP)
        cy == Clamp(py, 0, (GRID_SIZE - 1) * FP)
        x0 == cx \div FP
        y0 == cy \div FP
        fx == cx % FP
        fy == cy % FP
        lo == Lerp(At(f, x0, y0)[k], At(f, x0 + 1, y0)[k], fx)
        hi == Lerp(At(f, x0, y0 + 1)[k], At(f, x0 + 1, y0 + 1)[k], fx)
    IN  Lerp(lo, hi, fy)

\* falloff(0) = 1, decreasing, 0 from the radius on, for the squared
\* distance d2 (in units of 1/FP cells squared)
Falloff(d2, radius) ==
    LET r2 == (radius * radius) \div FP
    IN  IF r2 <= 0 \/ d2 >= r2 THEN 0 ELSE ((r2 - d2) * FP) \div r2

Dist2(c, pos) ==
    LET dx == c[1] * FP - pos[1]
        dy == c[2] * FP - pos[2]
    IN  (dx * dx + dy * dy) \div FP

\* mutant of add_source: the pointer_active flag is not consulted
add_source_unconditional(p, t) ==
    LET vel  == Load(t, 1)
        dens == Load(t, 3)
        fall(c) == Falloff(Dist2(c, p.mouse_pos), p.radius)
        imp(k)  == (p.mouse_delta[k] * p.add_strength) \div p.dt
        amount  == (p.add_strength * p.dt) \div FP
        nvel  == [c \in Cells |->
                    <<vel[c][1] + (imp(1) * fall(c)) \div FP,
                      vel[c][2] + (imp(2) * fall(c)) \div FP>>]
        ndens == [c \in Cells |->
                    <<dens[c][1] + (amount * fall(c)) \div FP, dens[c][2]>>]
    IN  Store(Store(t, 1, nvel), 3, ndens)

\* mutant of add_source: the impulse is not cut off at the radius
add_source_everywhere(p, t) ==
    IF p.mouse_down = 0 THEN t
    ELSE
        LET vel  == Load(t, 1)
            dens == Load(t, 3)
            fall(c) == FP
            imp(k)  == (p.mouse_delta[k] * p.add_strength) \div p.dt
            amount  == (p.add_strength * p.dt) \div FP
            nvel  == [c \in Cells |->
                        <<vel[c][1] + (imp(1) * fall(c)) \div FP,
                          vel[c][2] + (imp(2) * fall(c)) \div FP>>]
            ndens == [c \in Cells |->
                        <<dens[c][1] + (amount * fall(c)) \div FP, dens[c][2]>>]
        IN  Store(Store(t, 1, nvel), 3, ndens)

\* force injection: in place on velocity (binding 1) and density (binding 3)
add_source(p, t) ==
    IF p.mouse_down = 0 THEN t
    ELSE
        LET vel  == Load(t, 1)
            dens == Load(t, 3)
            fall(c) == Falloff(Dist2(c, p.mouse_pos), p.radius)
            imp(k)  == (p.mouse_delta[k] * p.add_strength) \div p.dt
            amount  == (p.add_strength * p.dt) \div FP
            nvel  == [c \in Cells |->
                        <<vel[c][1] + (imp(1) * fall(c)) \div FP,
                          vel[c][2] + (imp(2) * fall(c)) \div FP>>]
            ndens == [c \in Cells |->
                        <<dens[c][1] + (amount * fall(c)) \div FP, dens[c][2]>>]
        IN  Store(Store(t, 1, nvel), 3, ndens)

\* where the backward trace from cell c lands
TraceBack(p, vel, c) ==
    <<c[1] * FP - (p.dt * vel[c][1]) \div FP,
      c[2] * FP - (p.dt * vel[c][2]) \div FP>>

Decay(p, v) == (v * p.dissipation) \div FP

\* velocity advection: reads binding 1, writes binding 2
advect_vel(p, t) ==
    LET vel == Load(t, 1)
        out == [c \in Cells |->
                  LET src == TraceBack(p, vel, c)
                  IN  <<Decay(p, Bilinear(vel, 1, src[1], src[2])),
                        Decay(p, Bilinear(vel, 2, src[1], src[2]))>>]
    IN  Store(t, 2, out)

\* velocity commit: binding 2 copied to binding 1
copy_vel(p, t) == Store(t, 1, Load(t, 2))

\* density advection: reads bindings 3 and 1, writes binding 4
advect_dens(p, t) ==
    LET vel  == Load(t, 1)
        dens == Load(t, 3)
        out  == [c \in Cells |->
                   LET src == TraceBack(p, vel, c)
                   IN  <<Decay(p, Bilinear(dens, 1, src[1], src[2])), 0>>]
    IN  Store(t, 4, out)

\* density commit: binding 4 copied to binding 3
copy_dens(p, t) == Store(t, 3, Load(t, 4))

\* central differences of the velocity: reads binding 1, writes binding 7
compute_divergence(p, t) ==
    LET vel == Load(t, 1)
        out == [c \in Cells |->
                  <<((At(vel, c[1] + 1, c[2])[1] - At(vel, c[1] - 1, c[2])[1])
                     + (At(vel, c[1], c[2] + 1)[2] - At(vel, c[1], c[2] - 1)[2]))
                    \div 2, 0>>]
    IN  Store(t, 7, out)

\* one Jacobi sweep from the pressure at binding `from` to binding `to`
Jacobi(t, from, to) ==
    LET pr  == Load(t, from)
        div == Load(t, 7)
        out == [c \in Cells |->
                  <<(At(pr, c[1] - 1, c[2])[1] + At(pr, c[1] + 1, c[2])[1]
                     + At(pr, c[1], c[2] - 1)[1] + At(pr, c[1], c[2] + 1)[1]
                     - div[c][1]) \div 4, 0>>]
    IN  Store(t, to, out)

pressure_jacobi_a(p, t) == Jacobi(t, 5, 6)
pressure_jacobi_b(p, t) == Jacobi(t, 6, 5)

\* gradient subtraction: reads bindings 5 and 1, writes binding 1 in place
subtract_gradient(p, t) ==
    LET pr  == Load(t, 5)
        vel == Load(t, 1)
        out == [c \in Cells |->
                  <<vel[c][1] - (At(pr, c[1] + 1, c[2])[1]
                                 - At(pr, c[1] - 1, c[2])[1]) \div 2,
                    vel[c][2] - (At(pr, c[1], c[2] + 1)[1]
                                 - At(pr, c[1], c[2] - 1)[1]) \div 2>>]
    IN  Store(t, 1, out)

\* the entry point a pipeline was made from, applied to the whole grid
Kernel(entry, p, t) ==
    CASE entry = "add_source"         -> add_source(p, t)
      [] entry = "advect_vel"         -> advect_vel(p, t)
      [] entry = "copy_vel"           -> copy_vel(p, t)
      [] entry = "advect_dens"        -> advect_dens(p, t)
      [] entry = "copy_dens"          -> copy_dens(p, t)
      [] entry = "compute_divergence" -> compute_divergence(p, t)
      [] entry = "pressure_jacobi_a"  -> pressure_jacobi_a(p, t)
      [] entry = "pressure_jacobi_b"  -> pressure_jacobi_b(p, t)
      [] entry = "subtract_gradient"  -> subtract_gradient(p, t)

\* the bindings an entry point reads and the bindings it writes
ReadBindings(entry) ==
    CASE entry = "add_source"         -> {1, 3}
      [] entry = "advect_vel"         -> {1}
      [] entry = "copy_vel"           -> {2}
      [] entry = "advect_dens"        -> {1, 3}
      [] entry = "copy_dens"          -> {4}
      [] entry = "compute_divergence" -> {1}
      [] entry = "pressure_jacobi_a"  -> {5, 7}
      [] entry = "pressure_jacobi_b"  -> {6, 7}
      [] entry = "subtract_gradient"  -> {1, 5}

WriteBindings(entry) ==
    CASE entry = "add_source"         -> {1, 3}
      [] entry = "advect_vel"         -> {2}
      [] entry = "copy_vel"           -> {1}
      [] entry = "advect_dens"        -> {4}
      [] entry = "copy_dens"          -> {3}
      [] entry = "compute_divergence" -> {7}
      [] entry = "pressure_jacobi_a"  -> {6}
      [] entry = "pressure_jacobi_b"  -> {5}
      [] entry = "subtract_gradient"  -> {1}

----------------------------------------------------------------------------
(* Inputs of the event loop *)

\* sizes a Resized event may carry (the first is the minimised window)
WindowSizes == {<<0, 0>>, <<8 * GRID_SIZE, 8 * GRID_SIZE>>}

\* pixel positions a CursorMoved or Touch event may carry
Positions == {<<0, 0>>, <<2, 1>>}

\* results of surface.get_current_texture()
SurfaceResults == {"Ok", "Lost", "Outdated", "Timeout"}

ButtonStates == {"Pressed", "Released"}
TouchPhases == {"Started", "Moved", "Ended", "Cancelled"}

\* position.x as f32 * (GRID_SIZE as f32 / width.max(1) as f32)
ToGrid(pixel, extent) == (pixel * GRID_SIZE * FP) \div Max(extent, 1)

InitParams ==
    [grid_size |-> GRID_SIZE, mouse_down |-> 0, dt |-> DT,
     viscosity |-> VISCOSITY_E4, dissipation |-> DISSIPATION,
     add_strength |-> ADD_STRENGTH,
     mouse_pos |-> <<(GRID_SIZE * FP) \div 2, (GRID_SIZE * FP) \div 2>>,
     mouse_delta |-> <<0, 0>>, radius |-> RADIUS,
     _pad0 |-> 0, _pad1 |-> <<0, 0, 0, 0>>]

----------------------------------------------------------------------------
(* What RedrawRequested records into the command encoder *)

Dispatch(entry, p) == [op |-> "dispatch", entry |-> entry, data |-> p]

\* mutant of JacobiLoop: the range is inclusive, one round too many
RECURSIVE JacobiLoopInclusive(_, _)
JacobiLoopInclusive(n, p) ==
    <<Dispatch("pressure_jacobi_a", p), Dispatch("pressure_jacobi_b", p)>>
    \o (IF n = 0 THEN <<>> ELSE JacobiLoopInclusive(n - 1, p))

\* mutant of JacobiLoop: both dispatches of a round use pressure_a_pipe
RECURSIVE JacobiLoopSamePipeline(_, _)
JacobiLoopSamePipeline(n, p) ==
    IF n = 0 THEN <<>>
    ELSE <<Dispatch("pressure_jacobi_a", p), Dispatch("pressure_jacobi_a", p)>>
         \o JacobiLoopSamePipeline(n - 1, p)

RECURSIVE JacobiLoop(_, _)
JacobiLoop(n, p) ==
    IF n = 0 THEN <<>>
    ELSE <<Dispatch("pressure_jacobi_a", p), Dispatch("pressure_jacobi_b", p)>>
         \o JacobiLoop(n - 1, p)

\* mutant of ComputePass: the simulation is stepped twice per frame
ComputePassTwice(p) ==
    <<Dispatch("add_source", p), Dispatch("advect_vel", p),
      Dispatch("copy_vel", p), Dispatch("advect_dens", p),
      Dispatch("copy_dens", p), Dispatch("compute_divergence", p)>>
    \o JacobiLoop(JACOBI_ROUNDS, p)
    \o <<Dispatch("subtract_gradient", p)>>
    \o <<Dispatch("add_source", p), Dispatch("advect_vel", p),
         Dispatch("copy_vel", p), Dispatch("advect_dens", p),
         Dispatch("copy_dens", p), Dispatch("compute_divergence", p)>>
    \o JacobiLoop(JACOBI_ROUNDS, p)
    \o <<Dispatch("subtract_gradient", p)>>

\* mutant of ComputePass: density advection recorded before the velocity commit
ComputePassReordered(p) ==
    <<Dispatch("add_source", p), Dispatch("advect_vel", p),
      Dispatch("advect_dens", p), Dispatch("copy_vel", p),
      Dispatch("copy_dens", p), Dispatch("compute_divergence", p)>>
    \o JacobiLoop(JACOBI_ROUNDS, p)
    \o <<Dispatch("subtract_gradient", p)>>

\* mutant of ComputePass: the velocity commit is not recorded
ComputePassWithoutVelocityCommit(p) ==
    <<Dispatch("add_source", p), Dispatch("advect_vel", p),
      Dispatch("advect_dens", p),
      Dispatch("copy_dens", p), Dispatch("compute_divergence", p)>>
    \o JacobiLoop(JACOBI_ROUNDS, p)
    \o <<Dispatch("subtract_gradient", p)>>

\* mutant of ComputePass: the density advection and its commit are recorded
\* twice
ComputePassAdvectsDensityTwice(p) ==
    <<Dispatch("add_source", p), Dispatch("advect_vel", p),
      Dispatch("copy_vel", p), Dispatch("advect_dens", p),
      Dispatch("copy_dens", p), Dispatch("advect_dens", p),
      Dispatch("copy_dens", p), Dispatch("compute_divergence", p)>>
    \o JacobiLoop(JACOBI_ROUNDS, p)
    \o <<Dispatch("subtract_gradient", p)>>

\* the compute pass "sim"; p is carried along as an annotation only: the
\* parameter record the handler wrote for this tick
ComputePass(p) ==
    <<Dispatch("add_source", p), Dispatch("advect_vel", p),
      Dispatch("copy_vel", p), Dispatch("advect_dens", p),
      Dispatch("copy_dens", p), Dispatch("compute_divergence", p)>>
    \o JacobiLoop(JACOBI_ROUNDS, p)
    \o <<Dispatch("subtract_gradient", p)>>

\* the render pass "render" and the present of the frame
RenderPass(p) == <<[op |-> "render", entry |-> "fs_draw", data |-> p]>>

\* the buffer writes a submit hands to the queue ahead of its command buffer
RECURSIVE Writes(_)
Writes(datas) ==
    IF datas = <<>> THEN <<>>
    ELSE <<[op |-> "write", entry |-> "write_buffer", data |-> Head(datas)]>>
         \o Writes(Tail(datas))

InFlight == Cardinality({i \in DOMAIN gpu_queue : gpu_queue[i].op = "render"})

----------------------------------------------------------------------------
(* Initial state: after main() has built everything, before the event loop *)

Init ==
    /\ sim_params = InitParams
    /\ last_mouse = <<>>
    /\ window_size = <<8 * GRID_SIZE, 8 * GRID_SIZE>>
    /\ frame_count = 0
    /\ served = 0
    /\ staged = <<>>
    /\ gpu_queue = <<>>
    /\ param_buffer = InitParams
    /\ tex = InitTextures
    /\ since_release = "none"
    /\ tick = [index |-> 0, log |-> <<>>, seen |-> {}, want |-> {},
               start |-> [vel |-> InitTextures["vel"], dens |-> InitTextures["dens"],
                         press |-> InitTextures["press"]],
               done |-> TRUE]
    /\ last_stage = [entry |-> "none", reads |-> {}, writes |-> {},
                     before |-> InitTextures]
    /\ committed = [vel |-> InitTextures["vel"], dens |-> InitTextures["dens"],
                    ticks |-> 0]
    /\ held = [button |-> FALSE, touches |-> {}]

----------------------------------------------------------------------------
(* Window event handlers *)

Resized(new_size) ==
    /\ window_size' = IF new_size[1] > 0 /\ new_size[2] > 0
                      THEN new_size ELSE window_size
    /\ UNCHANGED <<sim_params, last_mouse, frame_count, served, staged,
                   gpu_queue, since_release>>
    /\ UNCHANGED gpu_vars

\* mutant of MouseInput: a release leaves the stored delta alone
MouseInputKeepsDelta(state) ==
    /\ sim_params' =
         [sim_params EXCEPT !.mouse_down = IF state = "Pressed" THEN 1 ELSE 0]
    /\ last_mouse' = IF state = "Released" THEN <<>> ELSE last_mouse
    /\ since_release' = IF state = "Released" THEN "released"
                        ELSE IF since_release = "released" THEN "pressed"
                        ELSE since_release
    /\ UNCHANGED <<window_size, frame_count, served, staged, gpu_queue>>
    /\ UNCHANGED gpu_vars

\* WindowEvent::MouseInput with button: MouseButton::Left
MouseInput(state) ==
    /\ sim_params' =
         [sim_params EXCEPT
            !.mouse_down = IF state = "Pressed" THEN 1 ELSE 0,
            !.mouse_delta = IF state = "Released" THEN <<0, 0>> ELSE @]
    /\ last_mouse' = IF state = "Released" THEN <<>> ELSE last_mouse
    /\ since_release' = IF state = "Released" THEN "released"
                        ELSE IF since_release = "released" THEN "pressed"
                        ELSE since_release
    /\ UNCHANGED <<window_size, frame_count, served, staged, gpu_queue>>
    /\ UNCHANGED gpu_vars

CursorMoved(position) ==
    LET mx == ToGrid(position[1], window_size[1])
        my == ToGrid(position[2], window_size[2])
    IN  /\ sim_params' =
             [sim_params EXCEPT
                !.mouse_delta = IF last_mouse # <<>>
                                THEN <<mx - last_mouse[1][1], my - last_mouse[1][2]>>
                                ELSE @,
                !.mouse_pos = <<mx, my>>]
        /\ last_mouse' = << <<mx, my>> >>
        /\ since_release' = IF since_release = "none" THEN "none" ELSE "moved"
        /\ UNCHANGED <<window_size, frame_count, served, staged, gpu_queue>>
        /\ UNCHANGED gpu_vars

Touch(phase, location) ==
    LET mx == ToGrid(location[1], window_size[1])
        my == ToGrid(location[2], window_size[2])
    IN  /\ CASE phase = "Started" ->
                  /\ sim_params' = [sim_params EXCEPT !.mouse_down = 1,
                                                      !.mouse_pos = <<mx, my>>]
                  /\ last_mouse' = << <<mx, my>> >>
                  /\ since_release' = IF since_release = "released"
                                      THEN "pressed" ELSE since_release
             [] phase = "Moved" ->
                  /\ sim_params' =
                       [sim_params EXCEPT
                          !.mouse_delta =
                              IF last_mouse # <<>>
                              THEN <<mx - last_mouse[1][1], my - last_mouse[1][2]>>
                              ELSE @,
                          !.mouse_pos = <<mx, my>>]
                  /\ last_mouse' = << <<mx, my>> >>
                  /\ since_release' = IF since_release = "none" THEN "none" ELSE "moved"
             [] OTHER ->
                  /\ sim_params' = [sim_params EXCEPT !.mouse_down = 0,
                                                      !.mouse_delta = <<0, 0>>]
                  /\ last_mouse' = <<>>
                  /\ since_release' = "released"
        /\ UNCHANGED <<window_size, frame_count, served, staged, gpu_queue>>
        /\ UNCHANGED gpu_vars

\* mutant of RedrawRequested: write_buffer is called after the submit, so the
\* record reaches the GPU only with the next frame
RedrawWritesAfterSubmit(result) ==
    /\ frame_count < MaxFrames
    /\ result = "Ok" => InFlight < MaxInFlight
    /\ frame_count' = frame_count + 1
    /\ served' = IF result = "Ok" THEN served + 1 ELSE served
    /\ IF result = "Ok"
       THEN /\ gpu_queue' = gpu_queue \o Writes(staged)
                            \o ComputePass(sim_params) \o RenderPass(sim_params)
            /\ staged' = <<sim_params>>
            /\ sim_params' = [sim_params EXCEPT !.mouse_delta = <<0, 0>>]
       ELSE /\ staged' = Append(staged, sim_params)
            /\ UNCHANGED <<gpu_queue, sim_params>>
    /\ UNCHANGED <<last_mouse, window_size, since_release>>
    /\ UNCHANGED gpu_vars

\* mutant of RedrawRequested: the compute pass is submitted before the frame
\* is acquired, so a failed acquisition only skips the render pass
RedrawSimulatesFirst(result) ==
    /\ frame_count < MaxFrames
    /\ InFlight < MaxInFlight
    /\ frame_count' = frame_count + 1
    /\ served' = IF result = "Ok" THEN served + 1 ELSE served
    /\ gpu_queue' = gpu_queue \o Writes(Append(staged, sim_params))
                     \o ComputePass(sim_params)
                     \o (IF result = "Ok" THEN RenderPass(sim_params) ELSE <<>>)
    /\ staged' = <<>>
    /\ sim_params' = IF result = "Ok"
                     THEN [sim_params EXCEPT !.mouse_delta = <<0, 0>>]
                     ELSE sim_params
    /\ UNCHANGED <<last_mouse, window_size, since_release>>
    /\ UNCHANGED gpu_vars

\* mutant of RedrawRequested: the render pass is recorded ahead of the
\* compute pass
RedrawRendersFirst(result) ==
    /\ frame_count < MaxFrames
    /\ result = "Ok" => InFlight < MaxInFlight
    /\ frame_count' = frame_count + 1
    /\ served' = IF result = "Ok" THEN served + 1 ELSE served
    /\ IF result = "Ok"
       THEN /\ gpu_queue' = gpu_queue \o Writes(Append(staged, sim_params))
                            \o RenderPass(sim_params) \o ComputePass(sim_params)
            /\ staged' = <<>>
            /\ sim_params' = [sim_params EXCEPT !.mouse_delta = <<0, 0>>]
       ELSE /\ staged' = Append(staged, sim_params)
            /\ UNCHANGED <<gpu_queue, sim_params>>
    /\ UNCHANGED <<last_mouse, window_size, since_release>>
    /\ UNCHANGED gpu_vars

\* mutant of RedrawRequested: the stored delta is not cleared after the submit
RedrawKeepsDelta(result) ==
    /\ frame_count < MaxFrames
    /\ result = "Ok" => InFlight < MaxInFlight
    /\ frame_count' = frame_count + 1
    /\ served' = IF result = "Ok" THEN served + 1 ELSE served
    /\ IF result = "Ok"
       THEN /\ gpu_queue' = gpu_queue \o Writes(Append(staged, sim_params))
                            \o ComputePass(sim_params) \o RenderPass(sim_params)
            /\ staged' = <<>>
            /\ sim_params' = sim_params
       ELSE /\ staged' = Append(staged, sim_params)
            /\ UNCHANGED <<gpu_queue, sim_params>>
    /\ UNCHANGED <<last_mouse, window_size, since_release>>
    /\ UNCHANGED gpu_vars

\* result is what surface.get_current_texture() returns this time
RedrawRequested(result) ==
    /\ frame_count < MaxFrames
    /\ result = "Ok" => InFlight < MaxInFlight
    /\ frame_count' = frame_count + 1
    /\ served' = IF result = "Ok" THEN served + 1 ELSE served
    /\ IF result = "Ok"
       THEN /\ gpu_queue' = gpu_queue \o Writes(Append(staged, sim_params))
                            \o ComputePass(sim_params) \o RenderPass(sim_params)
            /\ staged' = <<>>
            /\ sim_params' = [sim_params EXCEPT !.mouse_delta = <<0, 0>>]
       ELSE /\ staged' = Append(staged, sim_params)
            /\ UNCHANGED <<gpu_queue, sim_params>>
    /\ UNCHANGED <<last_mouse, window_size, since_release>>
    /\ UNCHANGED gpu_vars

----------------------------------------------------------------------------
(* The GPU queue: executes the submitted commands in order, one at a time   *)

GpuWrite ==
    /\ gpu_queue # <<>>
    /\ Head(gpu_queue).op = "write"
    /\ param_buffer' = Head(gpu_queue).data
    /\ gpu_queue' = Tail(gpu_queue)
    /\ UNCHANGED <<tex, tick, last_stage, committed, since_release>>
    /\ UNCHANGED cpu_vars

GpuDispatch ==
    /\ gpu_queue # <<>>
    /\ Head(gpu_queue).op = "dispatch"
    /\ LET cmd == Head(gpu_queue)
       IN  /\ tex' = Kernel(cmd.entry, param_buffer, tex)
           /\ tick' =
                IF tick.done
                THEN [index |-> tick.index + 1, log |-> <<cmd.entry>>,
                      seen |-> {param_buffer}, want |-> {cmd.data},
                      start |-> [vel |-> tex["vel"], dens |-> tex["dens"],
                                press |-> tex["press"]],
                      done |-> FALSE]
                ELSE [tick EXCEPT !.log = Append(@, cmd.entry),
                                  !.seen = @ \cup {param_buffer},
                                  !.want = @ \cup {cmd.data}]
           /\ last_stage' =
                [entry |-> cmd.entry,
                 reads |-> {compute_bg(b) : b \in ReadBindings(cmd.entry)},
                 writes |-> {compute_bg(b) : b \in WriteBindings(cmd.entry)},
                 before |-> tex]
    /\ gpu_queue' = Tail(gpu_queue)
    /\ UNCHANGED <<param_buffer, committed, since_release>>
    /\ UNCHANGED cpu_vars

GpuRender ==
    /\ gpu_queue # <<>>
    /\ Head(gpu_queue).op = "render"
    /\ tick' = [tick EXCEPT !.done = TRUE]
    /\ committed' = [vel |-> tex[render_bg(2)], dens |-> tex[render_bg(0)],
                     ticks |-> committed.ticks + 1]
    /\ gpu_queue' = Tail(gpu_queue)
    /\ UNCHANGED <<param_buffer, tex, last_stage, since_release>>
    /\ UNCHANGED cpu_vars

----------------------------------------------------------------------------

Next ==
    \/ \E s \in WindowSizes : Resized(s) /\ UNCHANGED held
    \/ \E b \in ButtonStates : MouseInput(b) /\ UNCHANGED held
    \/ \E q \in Positions : CursorMoved(q) /\ UNCHANGED held
    \/ \E ph \in TouchPhases, q \in Positions : Touch(ph, q) /\ UNCHANGED held
    \/ \E r \in SurfaceResults : RedrawRequested(r) /\ UNCHANGED held
    \/ GpuWrite /\ UNCHANGED held
    \/ GpuDispatch /\ UNCHANGED held
    \/ GpuRender /\ UNCHANGED held

Spec == Init /\ [][Next]_vars

----------------------------------------------------------------------------
(* The tick as a function of its inputs: the parameter record and the       *)
(* contents of the textures are drawn from small sets, and the compute pass *)
(* the handler records is executed on them by the queue, twice over         *)

\* pointer settings: where it is, how far it moved, how strong, how wide,
\* and the time step (the first is the 4x4 example of spec.md section 8, the
\* second what main.rs sets and CursorMoved produces)
PointerSettings ==
    {[pos |-> <<FP, FP>>, delta |-> <<FP, 0>>, add_strength |-> FP,
      radius |-> FP, dt |-> FP],
     [pos |-> <<FP \div 4, FP \div 8>>, delta |-> <<FP \div 4, FP \div 8>>,
      add_strength |-> ADD_STRENGTH, radius |-> RADIUS, dt |-> DT],
     [pos |-> <<2 * FP, FP>>, delta |-> <<0 - FP \div 2, FP \div 4>>,
      add_strength |-> FP, radius |-> (3 * FP) \div 2, dt |-> FP \div 4]}

TickRecords ==
    {[InitParams EXCEPT !.mouse_down = d, !.mouse_pos = s.pos,
                        !.mouse_delta = s.delta, !.add_strength = s.add_strength,
                        !.radius = s.radius, !.dt = s.dt] :
        d \in {0, 1}, s \in PointerSettings}

\* a velocity that swirls and spreads, a pressure with one bump
SwirlField == [c \in Cells |-> <<(c[2] - 1) * (FP \div 5) + c[1] * (FP \div 10),
                                 (2 - c[1]) * (FP \div 4)>>]
BumpField == [c \in Cells |-> <<IF c = <<1, 1>> THEN FP ELSE 0, 0>>]

TickTextures ==
    {[InitTextures EXCEPT !["vel"] = v, !["dens"] = d, !["press"] = pr] :
        v \in {ZeroField, SwirlField}, d \in {ZeroField, SeedDensity},
        pr \in {ZeroField, BumpField}}

TickInit ==
    /\ sim_params \in TickRecords
    /\ last_mouse = <<>>
    /\ window_size = <<8 * GRID_SIZE, 8 * GRID_SIZE>>
    /\ frame_count = 0
    /\ served = 0
    /\ staged = <<>>
    /\ gpu_queue = <<>>
    /\ param_buffer = sim_params
    /\ tex \in TickTextures
    /\ since_release = "none"
    /\ tick = [index |-> 0, log |-> <<>>, seen |-> {}, want |-> {},
               start |-> [vel |-> tex["vel"], dens |-> tex["dens"],
                         press |-> tex["press"]],
               done |-> TRUE]
    /\ last_stage = [entry |-> "none", reads |-> {}, writes |-> {},
                     before |-> tex]
    /\ committed = [vel |-> tex["vel"], dens |-> tex["dens"], ticks |-> 0]
    /\ held = [button |-> FALSE, touches |-> {}]

TickNext ==
    \/ RedrawRequested("Ok") /\ UNCHANGED held
    \/ GpuWrite /\ UNCHANGED held
    \/ GpuDispatch /\ UNCHANGED held
    \/ GpuRender /\ UNCHANGED held

TickSpec == TickInit /\ [][TickNext]_vars

----------------------------------------------------------------------------
(* main() as a function of the time step it is built with: main.rs writes   *)
(* dt as a literal into sim_params and goes on to create the textures and   *)
(* run the loop without looking at it                                       *)

\* time steps main.rs may be built with: the one it has, zero, a negative one
ConfiguredSteps == {DT, 0, 0 - DT}

ConfigInit ==
    /\ \E d \in ConfiguredSteps : sim_params = [InitParams EXCEPT !.dt = d]
    /\ last_mouse = <<>>
    /\ window_size = <<8 * GRID_SIZE, 8 * GRID_SIZE>>
    /\ frame_count = 0
    /\ served = 0
    /\ staged = <<>>
    /\ gpu_queue = <<>>
    /\ param_buffer = sim_params
    /\ tex = InitTextures
    /\ since_release = "none"
    /\ tick = [index |-> 0, log |-> <<>>, seen |-> {}, want |-> {},
               start |-> [vel |-> InitTextures["vel"], dens |-> InitTextures["dens"],
                         press |-> InitTextures["press"]],
               done |-> TRUE]
    /\ last_stage = [entry |-> "none", reads |-> {}, writes |-> {},
                     before |-> InitTextures]
    /\ committed = [vel |-> InitTextures["vel"], dens |-> InitTextures["dens"],
                    ticks |-> 0]
    /\ held = [button |-> FALSE, touches |-> {}]

ConfigNext ==
    \/ \E q \in Positions : CursorMoved(q) /\ UNCHANGED held
    \/ \E r \in SurfaceResults : RedrawRequested(r) /\ UNCHANGED held
    \/ GpuWrite /\ UNCHANGED held
    \/ GpuDispatch /\ UNCHANGED held
    \/ GpuRender /\ UNCHANGED held

ConfigSpec == ConfigInit /\ [][ConfigNext]_vars

----------------------------------------------------------------------------
(* The handlers under a user who works the left button and up to MaxTouches *)
(* fingers: a button is released only while it is down, a finger moves or   *)
(* lifts only while it touches.  held follows what is down; the handlers    *)
(* are the ones above, which see only the events.                           *)

\* fingers that may touch at once
MaxTouches == 2

\* touch.id of the Touch events
TouchIds == 1 .. MaxTouches

AnythingHeld == held.button \/ held.touches # {}

PointerNext ==
    \/ \E b \in ButtonStates :
          /\ (b = "Pressed") = ~held.button
          /\ MouseInput(b)
          /\ held' = [held EXCEPT !.button = (b = "Pressed")]
    \/ \E q \in Positions : CursorMoved(q) /\ UNCHANGED held
    \/ \E id \in TouchIds, ph \in TouchPhases, q \in Positions :
          /\ (ph = "Started") = (id \notin held.touches)
          /\ Touch(ph, q)
          /\ held' = [held EXCEPT
                         !.touches = IF ph = "Started" THEN @ \cup {id}
                                     ELSE IF ph = "Moved" THEN @
                                     ELSE @ \ {id}]
    \/ \E r \in SurfaceResults : RedrawRequested(r) /\ UNCHANGED held

PointerSpec == Init /\ [][PointerNext]_vars


----------------------------------------------------------------------------
(* Properties *)

FixedStages ==
    <<"add_source", "advect_vel", "copy_vel", "advect_dens", "copy_dens",
      "compute_divergence">>

JacobiEntries == {"pressure_jacobi_a", "pressure_jacobi_b"}

\* log is a prefix of: the six fixed stages, Jacobi sweeps, subtract_gradient
PipelinePrefix(log) ==
    \A i \in DOMAIN log :
        IF i <= Len(FixedStages) THEN log[i] = FixedStages[i]
        ELSE \/ /\ log[i] \in JacobiEntries
                /\ \A j \in (Len(FixedStages) + 1) .. i : log[j] \in JacobiEntries
             \/ /\ log[i] = "subtract_gradient"
                /\ i = Len(log)
                /\ i > Len(FixedStages) + 1
                /\ \A j \in (Len(FixedStages) + 1) .. (i - 1) : log[j] \in JacobiEntries

PipelineComplete(log) ==
    /\ Len(log) > Len(FixedStages) + 1
    /\ log[Len(log)] = "subtract_gradient"

TickRunning == ~tick.done
TickFinished == tick.done /\ tick.index > 0

\* C1: in every tick the dispatches execute in the order add_source,
\* advect_vel, copy_vel, advect_dens, copy_dens, compute_divergence, the
\* Jacobi sweeps, subtract_gradient; none is skipped or reordered, and only
\* the Jacobi sweeps occur more than once.
C1_StageOrder ==
    /\ PipelinePrefix(tick.log)
    /\ TickFinished => PipelineComplete(tick.log)

\* a tick with the pointer active and moving has run all its stages
C1_Witness ==
    /\ TickFinished
    /\ PipelineComplete(tick.log)
    /\ \E p \in tick.seen : p.mouse_down = 1 /\ p.mouse_delta # <<0, 0>>
    /\ tex["vel"] # ZeroField

\* the generations the field store holds for each field (main.rs:203-209)
FieldTextures(field) ==
    CASE field = "velocity"   -> [current |-> {"vel"}, next |-> {"vel_tmp"}]
      [] field = "density"    -> [current |-> {"dens"}, next |-> {"dens_tmp"}]
      [] field = "pressure"   -> [current |-> {"press"}, next |-> {"press_tmp"}]
      [] field = "divergence" -> [current |-> {"div"}, next |-> {}]

Fields == {"velocity", "density", "pressure", "divergence"}

CurrentGenerations == UNION {FieldTextures(f).current : f \in Fields}
NextGenerations == UNION {FieldTextures(f).next : f \in Fields}

\* C2 (as claimed): every field has a current and a next generation, and
\* every stage reads only current generations, writes only next generations,
\* and reads no texture it writes.
C2_DoubleBufferedStages ==
    last_stage.entry # "none" =>
        /\ \A f \in Fields : FieldTextures(f).current # {} /\ FieldTextures(f).next # {}
        /\ last_stage.reads \subseteq CurrentGenerations
        /\ last_stage.writes \subseteq NextGenerations
        /\ last_stage.reads \cap last_stage.writes = {}

\* C3: a RedrawRequested whose frame acquisition fails submits nothing: the
\* queue, the textures and the committed fields are what they were.
C3_FailedRedrawRunsNothing ==
    [][(frame_count' = frame_count + 1 /\ served' = served)
         => (gpu_queue' = gpu_queue /\ tex' = tex /\ committed' = committed
             /\ tick' = tick)]_vars

\* a failed request after a completed tick, fields changed since the start
C3_Witness ==
    /\ frame_count > served
    /\ staged # <<>>
    /\ committed.ticks >= 1
    /\ gpu_queue = <<>>
    /\ committed.dens # InitTextures["dens"]
    /\ tex["dens"] = committed.dens
    /\ tex["vel"] = committed.vel


\* C4 (as claimed): while a tick has run only a proper prefix of its
\* stages, the velocity and density the renderer and the next tick read are
\* those of the start of the tick.
C4_AbandonedTickInvisible ==
    (TickRunning /\ tick.log[Len(tick.log)] # "subtract_gradient") =>
        /\ tex[render_bg(2)] = tick.start.vel
        /\ tex[render_bg(0)] = tick.start.dens

Count(log, entries) == Cardinality({i \in DOMAIN log : log[i] \in entries})

C6_ParamsFixedForTick ==
    tick.index > 0 =>
        /\ Cardinality(tick.seen) = 1
        /\ tick.seen = tick.want

\* mid-tick, after a pointer event and the delta reset changed sim_params
C6_Witness ==
    /\ TickRunning
    /\ Len(tick.log) >= 2
    /\ \E p \in tick.seen :
          /\ p.mouse_delta # <<0, 0>>
          /\ p.mouse_down # sim_params.mouse_down
          /\ p.mouse_pos # sim_params.mouse_pos
    /\ sim_params.mouse_delta = <<0, 0>>

C9_InactiveInjectionIdentity ==
    (last_stage.entry = "add_source"
       /\ \A p \in tick.seen : p.mouse_down = 0) =>
        tex = last_stage.before

\* an inactive injection with a nonzero delta over a moving fluid
C9_Witness ==
    /\ last_stage.entry = "add_source"
    /\ \E p \in tick.seen : p.mouse_down = 0 /\ p.mouse_delta # <<0, 0>>
    /\ tex["vel"] # ZeroField
    /\ tex = last_stage.before

\* the record the last write_buffer in q carries
RECURSIVE LastWrite(_)
LastWrite(q) ==
    IF q = <<>> THEN InitParams
    ELSE IF q[Len(q)].op = "write" THEN q[Len(q)].data
    ELSE LastWrite(SubSeq(q, 1, Len(q) - 1))

NoMotionSinceRelease == since_release \in {"released", "pressed"}

\* C10: right after a release, mouse_down is 0 and mouse_delta is (0,0); as
\* long as no cursor or touch motion follows the release, the delta stays
\* (0,0) and the record written for the next tick carries a zero delta.
C10_ReleaseZeroesDelta ==
    /\ [](/\ since_release = "released" =>
               sim_params.mouse_down = 0 /\ sim_params.mouse_delta = <<0, 0>>
          /\ NoMotionSinceRelease => sim_params.mouse_delta = <<0, 0>>)
    /\ [][(NoMotionSinceRelease /\ served' = served + 1)
            => LastWrite(gpu_queue').mouse_delta = <<0, 0>>]_vars

\* a tick requested right after a release that followed a tick with motion
C10_Witness ==
    /\ since_release = "released"
    /\ served = 2
    /\ param_buffer.mouse_down = 1
    /\ param_buffer.mouse_delta # <<0, 0>>
    /\ gpu_queue # <<>>
    /\ Head(gpu_queue).op = "write"
    /\ Head(gpu_queue).data.mouse_down = 0
    /\ Head(gpu_queue).data.mouse_delta = <<0, 0>>

\* C11: the render pass executes only when every stage of its tick has run
\* (the last one being subtract_gradient); what it samples are the current
\* density and velocity textures, never a _tmp one, holding the result of the
\* whole tick; and it leaves every texture as it was.
C11_RendererReadsCommitted ==
    [][committed'.ticks = committed.ticks + 1 =>
         /\ TickRunning
         /\ PipelineComplete(tick.log)
         /\ last_stage.entry = "subtract_gradient"
         /\ tex = Kernel("subtract_gradient", param_buffer, last_stage.before)
         /\ {render_bg(0), render_bg(2)} \subseteq CurrentGenerations
         /\ {render_bg(0), render_bg(2)} \cap NextGenerations = {}
         /\ committed'.dens = tex[CHOOSE n \in FieldTextures("density").current : TRUE]
         /\ committed'.vel = tex[CHOOSE n \in FieldTextures("velocity").current : TRUE]
         /\ tex' = tex]_vars

\* the second frame is on screen, drawn from fields that moved, while the
\* _tmp textures hold something else
C11_Witness ==
    /\ committed.ticks = 2
    /\ TickFinished
    /\ committed.vel # ZeroField
    /\ committed.vel = tex["vel"]
    /\ committed.dens = tex["dens"]
    /\ tex["vel_tmp"] # tex["vel"]

\* v scaled by the dissipation of p, n times over
RECURSIVE DecayTimes(_, _, _)
DecayTimes(p, v, n) == IF n = 0 THEN v ELSE DecayTimes(p, Decay(p, v), n - 1)

\* no button press and no touch start has happened so far
NeverPressed == since_release = "none" /\ sim_params.mouse_down = 0

Abs(x) == IF x < 0 THEN 0 - x ELSE x

\* cells with all four neighbours inside the grid
Interior == {c \in Cells : /\ 0 < c[1] /\ c[1] < GRID_SIZE - 1
                           /\ 0 < c[2] /\ c[2] < GRID_SIZE - 1}

\* the sum of |f| over the cells of S (the mean times the number of cells)
RECURSIVE SumAbs(_, _)
SumAbs(f, S) ==
    IF S = {} THEN 0
    ELSE LET c == CHOOSE x \in S : TRUE
         IN  Abs(f[c][1]) + SumAbs(f, S \ {c})

\* the textures after the queue has executed the dispatches cmds on t
RECURSIVE Execute(_, _, _)
Execute(cmds, p, t) ==
    IF cmds = <<>> THEN t
    ELSE LET out == Kernel(Head(cmds).entry, p, t)
         \* the comparison makes TLC evaluate out once, here
         IN  IF out = out THEN Execute(Tail(cmds), p, out) ELSE t

\* what follows compute_divergence in the compute pass, with n rounds of sweeps
ProjectionTail(n, p) == JacobiLoop(n, p) \o <<Dispatch("subtract_gradient", p)>>

\* the divergence of the velocity in t
DivergenceOf(p, t) == Load(compute_divergence(p, t), 7)

\* the divergence left when the projection runs n rounds of sweeps on t
ResidualAfter(n, p, t) ==
    SumAbs(DivergenceOf(p, Execute(ProjectionTail(n, p), p, t)), Interior)

\* rounds of sweeps the projection is tried with, from 10 (20 sweeps) up
MaxRounds == 11

\* C14 (as claimed): for the velocity that enters the projection, the sum of
\* |divergence| over the interior cells after a projection of at least 20
\* sweeps is less than the sum before it, and does not grow when a round of
\* sweeps is added.
C14_ProjectionReducesDivergence ==
    last_stage.entry = "compute_divergence" =>
        \A n \in 10 .. MaxRounds :
            /\ ResidualAfter(n, param_buffer, tex) < SumAbs(tex["div"], Interior)
            /\ ResidualAfter(n + 1, param_buffer, tex)
                 <= ResidualAfter(n, param_buffer, tex)

\* the example of spec.md section 8: pointer active at (1,1), delta (1,0),
\* add_strength 1, radius 1, dt 1
ExampleRecord ==
    [InitParams EXCEPT !.mouse_down = 1, !.mouse_pos = <<FP, FP>>,
                       !.mouse_delta = <<FP, 0>>, !.add_strength = FP,
                       !.radius = FP, !.dt = FP]

Neighbours(c) == {d \in Cells : Abs(d[1] - c[1]) + Abs(d[2] - c[2]) = 1}

ReadTextures(entry) == {compute_bg(b) : b \in ReadBindings(entry)}
WrittenTextures(entry) == {compute_bg(b) : b \in WriteBindings(entry)}

PressureTextures ==
    FieldTextures("pressure").current \cup FieldTextures("pressure").next

\* C17: a Jacobi sweep reads the pressure from one of the two pressure
\* textures and writes the other one, leaving the one it reads untouched;
\* of two consecutive sweeps the second reads what the first wrote and
\* writes what the first read; and subtract_gradient reads the pressure
\* texture the last sweep wrote.
C17_JacobiPingPong ==
    /\ last_stage.entry \in JacobiEntries =>
          /\ Cardinality(last_stage.reads \cap PressureTextures) = 1
          /\ Cardinality(last_stage.writes) = 1
          /\ last_stage.writes \subseteq PressureTextures
          /\ last_stage.reads \cap last_stage.writes = {}
          /\ \A n \in last_stage.reads : tex[n] = last_stage.before[n]
    /\ \A i \in 1 .. (Len(tick.log) - 1) :
          (tick.log[i] \in JacobiEntries /\ tick.log[i + 1] \in JacobiEntries) =>
              /\ ReadTextures(tick.log[i + 1]) \cap PressureTextures
                   = WrittenTextures(tick.log[i])
              /\ WrittenTextures(tick.log[i + 1])
                   = ReadTextures(tick.log[i]) \cap PressureTextures
    /\ (last_stage.entry = "subtract_gradient" /\ Len(tick.log) > 1) =>
          /\ tick.log[Len(tick.log) - 1] \in JacobiEntries
          /\ last_stage.reads \cap PressureTextures
               = WrittenTextures(tick.log[Len(tick.log) - 1])

\* the gradient of the second tick has been subtracted, the two pressure
\* textures holding different iterates
C17_Witness ==
    /\ last_stage.entry = "subtract_gradient"
    /\ tick.index = 2
    /\ Count(tick.log, JacobiEntries) = 2 * JACOBI_ROUNDS
    /\ last_stage.before["press"] # ZeroField
    /\ last_stage.before["press"] # last_stage.before["press_tmp"]
    /\ tex["vel"] # last_stage.before["vel"]

\* the velocity advect_vel produces in the running tick, from the velocity
\* and density the tick started with
AdvectedVelocity ==
    LET p  == param_buffer
        t0 == [tex EXCEPT !["vel"] = tick.start.vel, !["dens"] = tick.start.dens]
    IN  Load(advect_vel(p, add_source(p, t0)), 2)

\* C18: the velocity texture advect_dens reads is a current one, and what
\* it holds then is the velocity advect_vel produced in this very tick,
\* copied there by copy_vel; not the velocity from before the advection.
C18_DensityFollowsAdvectedVelocity ==
    last_stage.entry = "advect_dens" =>
        /\ last_stage.reads \cap NextGenerations = {}
        /\ last_stage.reads \cap FieldTextures("velocity").current # {}
        /\ \A n \in last_stage.reads \cap FieldTextures("velocity").current :
              /\ last_stage.before[n] = AdvectedVelocity
              /\ \A m \in FieldTextures("velocity").next :
                    last_stage.before[n] = last_stage.before[m]

\* density advection of the second tick, over a velocity that the advection
\* of that tick changed
C18_Witness ==
    /\ last_stage.entry = "advect_dens"
    /\ tick.index = 2
    /\ last_stage.before["vel"] # ZeroField
    /\ last_stage.before["vel"] # tick.start.vel
    /\ last_stage.before["vel"] = AdvectedVelocity
    /\ tex["dens_tmp"] # tex["dens"]

\* cell c lies farther from the pointer of p than the radius of p
Farther(c, p) ==
    LET dx == c[1] * FP - p.mouse_pos[1]
        dy == c[2] * FP - p.mouse_pos[2]
    IN  dx * dx + dy * dy > p.radius * p.radius

\* C19: with the pointer active, add_source leaves the velocity and the
\* density of every cell farther than the radius from the pointer exactly as
\* they were, and touches no other texture.
C19_InjectionWithinRadius ==
    (last_stage.entry = "add_source" /\ param_buffer.mouse_down = 1) =>
        /\ \A c \in Cells :
              Farther(c, param_buffer) =>
                  /\ tex["vel"][c] = last_stage.before["vel"][c]
                  /\ tex["dens"][c] = last_stage.before["dens"][c]
        /\ \A n \in Textures \ {"vel", "dens"} : tex[n] = last_stage.before[n]

\* an injection that changed cells near the pointer while cells beyond the
\* radius, with fluid moving in them, kept their values
C19_Witness ==
    /\ last_stage.entry = "add_source"
    /\ param_buffer.mouse_down = 1
    /\ \E c \in Cells :
          /\ ~Farther(c, param_buffer)
          /\ tex["vel"][c] # last_stage.before["vel"][c]
          /\ tex["dens"][c] # last_stage.before["dens"][c]
    /\ \E c \in Cells :
          /\ Farther(c, param_buffer)
          /\ last_stage.before["vel"][c] # <<0, 0>>
          /\ tex["vel"][c] = last_stage.before["vel"][c]
          /\ tex["dens"][c] = last_stage.before["dens"][c]

\* C20 (as claimed): the record a served RedrawRequested writes for its tick
\* has mouse_down = 1 exactly when the left button or at least one finger
\* is down at that moment.
C20_ActiveIffHeld ==
    [][served' = served + 1 => ((sim_params.mouse_down = 1) <=> AnythingHeld)]_vars

\* C21: a served request hands its tick the stored delta and leaves (0,0)
\* behind; a request that fails on the surface leaves sim_params as it was;
\* and the stored delta becomes a new nonzero value only by a cursor or
\* touch motion, as the distance between that position and the one before.
\* So a tick gets a nonzero delta only from a motion after the last submit.
C21_DeltaConsumedOnce ==
    /\ [][served' = served + 1 =>
            /\ LastWrite(gpu_queue').mouse_delta = sim_params.mouse_delta
            /\ sim_params'.mouse_delta = <<0, 0>>]_vars
    /\ [][(frame_count' = frame_count + 1 /\ served' = served) =>
            sim_params' = sim_params]_vars
    /\ [][(sim_params'.mouse_delta # sim_params.mouse_delta
            /\ sim_params'.mouse_delta # <<0, 0>>) =>
            /\ frame_count' = frame_count
            /\ last_mouse # <<>>
            /\ last_mouse' = <<sim_params'.mouse_pos>>
            /\ sim_params'.mouse_delta
                 = <<last_mouse'[1][1] - last_mouse[1][1],
                     last_mouse'[1][2] - last_mouse[1][2]>>]_vars

\* a failed request kept the delta of a motion, the next request was served
\* with it, and the delta left behind is (0,0) with the pointer still down
C21_Witness ==
    /\ frame_count = 2
    /\ served = 1
    /\ staged = <<>>
    /\ sim_params.mouse_down = 1
    /\ sim_params.mouse_delta = <<0, 0>>
    /\ last_mouse # <<>>
    /\ Len(gpu_queue) > 2
    /\ gpu_queue[1].op = "write"
    /\ gpu_queue[2].op = "write"
    /\ gpu_queue[1].data.mouse_delta # <<0, 0>>
    /\ gpu_queue[2].data = gpu_queue[1].data

====
